---- MODULE Spec2Model ----
(***************************************************************************)
(* Eclat de Lune API (src/main.py, src/schemas.py): the HTTP handlers over *)
(* a document store, as a state machine.  Every request is served by a     *)
(* request slot; a handler is cut into steps at its store operations       *)
(* (one get_documents, create_document or update_one per step), because    *)
(* the hosting runtime runs the synchronous handlers concurrently and      *)
(* nothing in the handlers locks.  The computation a handler does between  *)
(* two store operations is local and belongs to the step of the earlier    *)
(* one.                                                                    *)
(***************************************************************************)
EXTENDS Integers, Sequences, FiniteSets, TLC

VARIABLES
    db,        \* collection name -> sequence of documents, in store order
    nextId,    \* the store's next internal identifier (_id)
    pc,        \* request slot -> position in its handler ("idle" between requests)
    req,       \* request slot -> the request being served (or last served)
    loc,       \* request slot -> the handler's local variables
    resp,      \* request slot -> the response of the last completed request
    nreq,      \* number of requests accepted so far
    serial,    \* TRUE when the clients never overlap requests
    prev,      \* history: the request completed last, with its response
    hist,      \* history: request slot -> the store as the request was accepted
    earnLog,   \* history: email -> amounts of the completed earn requests, oldest first
    seedsDone  \* history: number of completed seed requests

vars == <<db, nextId, pc, req, loc, resp, nreq, serial, prev, hist, earnLog, seedsDone>>

\* ------------------------------------------------------------------ bounds

\* Requests accepted in one behaviour.
MaxReqs == 3

\* Documents of the lookbook collection drawn for the lookbook specification.
MaxLook == 3

\* The request slots: two requests can be in flight at once.
Procs == {1, 2}

\* ------------------------------------------------------------------ inputs

Emails == {"a@x.com", "b@x.com"}

DefaultAmount == 5

Amounts == {-5, 0, DefaultAmount}

Seasons == {"fall-24", "spring-25"}

Collections == {"product", "lookbookentry", "loyaltyuser", "journalpost"}

Categories == {"New", "Ready-to-Wear", "Occasion", "Atelier"}

Tiers == {"Nova", "Lunar", "Eclipse"}

\* ------------------------------------------------------------------ documents

\* dict.get(key, default)
Get(d, k, default) == IF k \in DOMAIN d THEN d[k] ELSE default

\* dict.pop(key, None), for its effect on the dict
Pop(d, k) == [x \in DOMAIN d \ {k} |-> d[x]]

\* The dict with one more key (the store's _id on insert)
With(d, k, v) == [x \in DOMAIN d \cup {k} |-> IF x = k THEN v ELSE d[x]]

RECURSIVE SelectDocs(_, _)
\* The documents of a sequence that match an exact-equality filter, in order
SelectDocs(s, filt) ==
    IF s = <<>> THEN <<>>
    ELSE LET d == Head(s)
             hit == \A k \in DOMAIN filt : k \in DOMAIN d /\ d[k] = filt[k]
         IN  (IF hit THEN <<d>> ELSE <<>>) \o SelectDocs(Tail(s), filt)

RECURSIVE SumSeq(_)
SumSeq(s) == IF s = <<>> THEN 0 ELSE Head(s) + SumSeq(Tail(s))

Range(s) == {s[i] : i \in DOMAIN s}

NoFilter == [x \in {} |-> 0]

\* ------------------------------------------------------------------ schemas
\* Of each schema the fields that decide a handler's behaviour are kept, with
\* one opaque field (title) standing for the fields that are only carried.

\* schemas.Product: required title, slug, price >= 0, category of the enumeration
ProductValid(b) ==
    /\ {"title", "slug", "price", "category"} \subseteq DOMAIN b
    /\ b["price"] >= 0
    /\ b["category"] \in Categories

\* schemas.Product: the validated record, defaults applied
Product(b) ==
    [title |-> b["title"], slug |-> b["slug"], price |-> b["price"],
     category |-> b["category"], in_stock |-> Get(b, "in_stock", TRUE)]

\* schemas.LookbookEntry: order defaults to 0
LookbookEntry(b) ==
    [season |-> b["season"], title |-> b["title"], slug |-> b["slug"],
     order |-> Get(b, "order", 0)]

\* schemas.LoyaltyUser: photons >= 0 (default 0), tier of the enumeration (default Nova)
LoyaltyUserValid(b) ==
    /\ "email" \in DOMAIN b
    /\ Get(b, "photons", 0) >= 0
    /\ Get(b, "tier", "Nova") \in Tiers

LoyaltyUser(b) ==
    [email |-> b["email"], photons |-> Get(b, "photons", 0),
     tier |-> Get(b, "tier", "Nova")]

\* schemas.JournalPost
JournalPost(b) == [title |-> b["title"], slug |-> b["slug"]]

\* main.PhotonEvent: required email and kind, amount defaults to 5
PhotonEventValid(b) == {"email", "kind"} \subseteq DOMAIN b

PhotonEvent(b) ==
    [email |-> b["email"], kind |-> b["kind"],
     amount |-> Get(b, "amount", DefaultAmount)]

\* ------------------------------------------------------------------ store adapter

\* database.get_documents(collection, filter): every match, in store order
get_documents(coll, filt) == SelectDocs(db[coll], filt)

\* database.get_documents(collection, filter, limit=n)
get_documents_limit(coll, filt, n) ==
    LET all == SelectDocs(db[coll], filt)
    IN  IF Len(all) <= n THEN all ELSE SubSeq(all, 1, n)

\* database.create_document(collection, data): always inserts; the store assigns _id
create_document(coll, data) ==
    /\ db' = [db EXCEPT ![coll] = Append(@, With(data, "_id", nextId))]
    /\ nextId' = nextId + 1

\* db[collection].update_one({"_id": id}, {"$set": {field: value}})
update_one(coll, id, field, value) ==
    /\ db' = [db EXCEPT ![coll] =
                [i \in DOMAIN @ |-> IF @[i]["_id"] = id
                                    THEN With(@[i], field, value)
                                    ELSE @[i]]]
    /\ nextId' = nextId

\* Number of loyalty profiles a store state holds for an email
Profiles(store, e) == Len(SelectDocs(store["loyaltyuser"], [email |-> e]))

\* ------------------------------------------------------------------ requests

Slugs == {"selene-sheath-dress", "luna-cape"}

\* Bodies POSTed to /api/products: two valid ones sharing a slug, one reusing a
\* seed sample's slug, one with a negative price, one with an unknown category.
ProductBodies ==
    { [title |-> "Luna Cape", slug |-> "luna-cape", price |-> 120, category |-> "New"],
      [title |-> "Luna Cape II", slug |-> "luna-cape", price |-> 90,
       category |-> "Atelier", in_stock |-> FALSE],
      [title |-> "Selene Copy", slug |-> "selene-sheath-dress", price |-> 1,
       category |-> "Occasion"],
      [title |-> "Free Fall", slug |-> "luna-cape", price |-> -1, category |-> "New"],
      [title |-> "Odd", slug |-> "luna-cape", price |-> 5, category |-> "Sale"] }

\* Bodies POSTed to /api/universe/earn: every email with every amount, one
\* that leaves the amount out, one that leaves the email out.
PhotonBodies ==
    { [email |-> e, kind |-> "view_3d", amount |-> a] : e \in Emails, a \in Amounts }
    \cup { [email |-> "a@x.com", kind |-> "share_ar"] }
    \cup { [kind |-> "recycle", amount |-> DefaultAmount] }

LookbookRequests == { [op |-> "get_lookbook", season |-> s] : s \in Seasons }

Requests ==
    { [op |-> "create_product", body |-> b] : b \in ProductBodies }
    \cup { [op |-> "get_product", slug |-> s] : s \in Slugs }
    \cup LookbookRequests
    \cup { [op |-> "get_profile", email |-> e] : e \in Emails }
    \cup { [op |-> "earn_photons", body |-> b] : b \in PhotonBodies }
    \cup { [op |-> "seed_minimal"] }

\* The request body passes the schema the route declares for it
BodyValid(r) ==
    CASE r["op"] = "create_product" -> ProductValid(r["body"])
      [] r["op"] = "earn_photons"   -> PhotonEventValid(r["body"])
      [] OTHER                      -> TRUE

\* The request as the handler receives it: the body parsed into its model
Parsed(r) ==
    CASE r["op"] = "create_product" -> [r EXCEPT !["body"] = Product(r["body"])]
      [] r["op"] = "earn_photons"   -> [r EXCEPT !["body"] = PhotonEvent(r["body"])]
      [] OTHER                      -> r

NoResp == [status |-> 0]
NoLoc == [none |-> TRUE]
NoReq == [op |-> "none"]

AllIdle == \A p \in Procs : pc[p] = "idle"

\* Whether slot p may take a request: any idle slot when requests overlap; when
\* they do not, the next request waits for the last one to complete, and which
\* slot serves it is immaterial, so the first does
Admit(p) == serial => (AllIdle /\ \A q \in Procs : p <= q)

EmptyStore == [c \in Collections |-> <<>>]

\* The history kept of a request as it is accepted
Snapshot == [db0 |-> db, after |-> seedsDone > 0, fresh |-> db = EmptyStore]

\* A request completes with response r
Complete(p, r) ==
    /\ pc' = [pc EXCEPT ![p] = "idle"]
    /\ resp' = [resp EXCEPT ![p] = r]
    /\ loc' = [loc EXCEPT ![p] = NoLoc]
    /\ prev' = [slot |-> p, req |-> req[p], resp |-> r, db0 |-> hist[p]["db0"],
                after |-> hist[p]["after"], fresh |-> hist[p]["fresh"]]

\* A handler moves on to label l with locals v
Goto(p, l, v) ==
    /\ pc' = [pc EXCEPT ![p] = l]
    /\ loc' = [loc EXCEPT ![p] = v]
    /\ UNCHANGED <<resp, prev>>

NoWrite == UNCHANGED <<db, nextId>>

Frame == UNCHANGED <<req, nreq, serial, hist>>

\* ------------------------------------------------------------------ dispatch

\* The runtime hands a request whose body passes validation to its handler
Accept(p, r) ==
    /\ pc[p] = "idle"
    /\ nreq < MaxReqs
    /\ Admit(p)
    /\ BodyValid(r)
    /\ pc' = [pc EXCEPT ![p] = r["op"]]
    /\ req' = [req EXCEPT ![p] = Parsed(r)]
    /\ loc' = [loc EXCEPT ![p] = NoLoc]
    /\ resp' = [resp EXCEPT ![p] = NoResp]
    /\ hist' = [hist EXCEPT ![p] = Snapshot]
    /\ nreq' = nreq + 1
    /\ NoWrite
    /\ UNCHANGED <<serial, prev, earnLog, seedsDone>>

\* The runtime answers a request whose body fails validation itself (422);
\* the handler never runs
Reject(p, r) ==
    /\ pc[p] = "idle"
    /\ nreq < MaxReqs
    /\ Admit(p)
    /\ ~BodyValid(r)
    /\ req' = [req EXCEPT ![p] = r]
    /\ resp' = [resp EXCEPT ![p] = [status |-> 422]]
    /\ prev' = [slot |-> p, req |-> r, resp |-> [status |-> 422], db0 |-> db,
                after |-> seedsDone > 0, fresh |-> db = EmptyStore]
    /\ hist' = [hist EXCEPT ![p] = Snapshot]
    /\ nreq' = nreq + 1
    /\ NoWrite
    /\ UNCHANGED <<pc, loc, serial, earnLog, seedsDone>>

\* ------------------------------------------------------------------ products

\* get_product's answer for what the lookup returned
ProductResponse(docs) ==
    IF docs = <<>>
    THEN [status |-> 404, detail |-> "Product not found"]
    ELSE [status |-> 200, body |-> Product(Pop(docs[1], "_id"))]

\* GET /api/products/{slug}
get_product(p) ==
    /\ pc[p] = "get_product"
    /\ Complete(p, ProductResponse(
                      get_documents_limit("product", [slug |-> req[p]["slug"]], 1)))
    /\ NoWrite
    /\ Frame
    /\ UNCHANGED <<earnLog, seedsDone>>

\* POST /api/products
create_product(p) ==
    /\ pc[p] = "create_product"
    /\ create_document("product", req[p]["body"])
    /\ Complete(p, [status |-> 200, body |-> [id |-> nextId]])
    /\ Frame
    /\ UNCHANGED <<earnLog, seedsDone>>

\* ------------------------------------------------------------------ lookbook

\* As OrderKey, with a missing order sorting as 1
OrderKey_one(d) == Get(d, "order", 1)

\* The sort key of get_lookbook: d.get("order", 0)
OrderKey(d) == Get(d, "order", 0)

RECURSIVE InsertByOrder(_, _)
\* d put into a sorted sequence after every document whose key is not larger
InsertByOrder(d, s) ==
    IF s = <<>> THEN <<d>>
    ELSE IF OrderKey(Head(s)) <= OrderKey(d)
         THEN <<Head(s)>> \o InsertByOrder(d, Tail(s))
         ELSE <<d>> \o s

RECURSIVE SortLookbook(_)
\* docs.sort(key=...): ascending and stable
SortLookbook(docs) ==
    IF docs = <<>> THEN <<>>
    ELSE InsertByOrder(docs[Len(docs)], SortLookbook(SubSeq(docs, 1, Len(docs) - 1)))

\* GET /api/lookbook/{season}
get_lookbook(p) ==
    /\ pc[p] = "get_lookbook"
    /\ LET docs == SortLookbook(get_documents("lookbookentry",
                                             [season |-> req[p]["season"]]))
       IN  Complete(p, [status |-> 200,
                        body |-> [i \in DOMAIN docs |->
                                     LookbookEntry(Pop(docs[i], "_id"))]])
    /\ NoWrite
    /\ Frame
    /\ UNCHANGED <<earnLog, seedsDone>>

\* ------------------------------------------------------------------ loyalty

\* As NewProfile, with a welcome balance
NewProfile_bonus(email) == [email |-> email, photons |-> DefaultAmount]

\* The keyword arguments of LoyaltyUser(email=email)
NewProfile(email) == [email |-> email]

\* As FirstEarnProfile, creating the profile with the default balance
FirstEarnProfile_zero(event) == [email |-> event["email"]]

\* The keyword arguments of LoyaltyUser(email=event.email, photons=event.amount)
FirstEarnProfile(event) == [email |-> event["email"], photons |-> event["amount"]]

\* int(doc.get("photons", 0)) + int(event.amount)
EarnTotal(doc, event) == Get(doc, "photons", 0) + event["amount"]

\* The answer a response_model of LoyaltyUser makes of a returned value
ProfileResponse(d) ==
    IF LoyaltyUserValid(d)
    THEN [status |-> 200, body |-> LoyaltyUser(d)]
    ELSE [status |-> 500]

\* GET /api/universe/profile, to the lookup
get_profile(p) ==
    /\ pc[p] = "get_profile"
    /\ LET docs == get_documents_limit("loyaltyuser", [email |-> req[p]["email"]], 1)
       IN  IF docs = <<>>
           THEN Goto(p, "get_profile_insert",
                     [profile |-> LoyaltyUser(NewProfile(req[p]["email"]))])
           ELSE Complete(p, ProfileResponse(Pop(docs[1], "_id")))
    /\ NoWrite
    /\ Frame
    /\ UNCHANGED <<earnLog, seedsDone>>

\* As get_profile_insert, inserting only if the profile is still absent
get_profile_insert_ifabsent(p) ==
    /\ pc[p] = "get_profile_insert"
    /\ IF get_documents("loyaltyuser", [email |-> req[p]["email"]]) = <<>>
       THEN create_document("loyaltyuser", loc[p]["profile"])
       ELSE NoWrite
    /\ Complete(p, ProfileResponse(loc[p]["profile"]))
    /\ Frame
    /\ UNCHANGED <<earnLog, seedsDone>>

\* GET /api/universe/profile, auto-provisioning the profile not found
get_profile_insert(p) ==
    /\ pc[p] = "get_profile_insert"
    /\ create_document("loyaltyuser", loc[p]["profile"])
    /\ Complete(p, ProfileResponse(loc[p]["profile"]))
    /\ Frame
    /\ UNCHANGED <<earnLog, seedsDone>>

Logged(p) == [earnLog EXCEPT ![req[p]["body"]["email"]] =
                 Append(@, req[p]["body"]["amount"])]

\* POST /api/universe/earn, to the lookup; LoyaltyUser(...) raises in the
\* handler when the amount is negative, which the runtime answers with 500
earn_photons(p) ==
    /\ pc[p] = "earn_photons"
    /\ LET event == req[p]["body"]
           docs == get_documents_limit("loyaltyuser", [email |-> event["email"]], 1)
       IN  IF docs = <<>>
           THEN IF LoyaltyUserValid(FirstEarnProfile(event))
                THEN /\ Goto(p, "earn_insert",
                             [profile |-> LoyaltyUser(FirstEarnProfile(event))])
                     /\ UNCHANGED earnLog
                ELSE /\ Complete(p, [status |-> 500])
                     /\ earnLog' = Logged(p)
           ELSE /\ Goto(p, "earn_update", [doc |-> docs[1]])
                /\ UNCHANGED earnLog
    /\ NoWrite
    /\ Frame
    /\ UNCHANGED seedsDone

\* POST /api/universe/earn, creating the profile not found
earn_insert(p) ==
    /\ pc[p] = "earn_insert"
    /\ create_document("loyaltyuser", loc[p]["profile"])
    /\ Complete(p, [status |-> 200, body |-> [ok |-> TRUE]])
    /\ earnLog' = Logged(p)
    /\ Frame
    /\ UNCHANGED seedsDone

\* As earn_update, incrementing the stored balance in the store ($inc)
earn_update_inc(p) ==
    /\ pc[p] = "earn_update"
    /\ LET id == loc[p]["doc"]["_id"]
           now == get_documents("loyaltyuser", [_id |-> id])[1]
           photons == EarnTotal(now, req[p]["body"])
       IN  /\ update_one("loyaltyuser", id, "photons", photons)
           /\ Complete(p, [status |-> 200, body |-> [ok |-> TRUE, photons |-> photons]])
    /\ earnLog' = Logged(p)
    /\ Frame
    /\ UNCHANGED seedsDone

\* POST /api/universe/earn, writing the new total of the profile found
earn_update(p) ==
    /\ pc[p] = "earn_update"
    /\ LET photons == EarnTotal(loc[p]["doc"], req[p]["body"])
       IN  /\ update_one("loyaltyuser", loc[p]["doc"]["_id"], "photons", photons)
           /\ Complete(p, [status |-> 200, body |-> [ok |-> TRUE, photons |-> photons]])
    /\ earnLog' = Logged(p)
    /\ Frame
    /\ UNCHANGED seedsDone

\* ------------------------------------------------------------------ seed

SampleProducts ==
    << Product([title |-> "Selene Sheath Dress", slug |-> "selene-sheath-dress",
                price |-> 680, category |-> "Ready-to-Wear", in_stock |-> TRUE]),
       Product([title |-> "Nova Organza Gown", slug |-> "nova-organza-gown",
                price |-> 1450, category |-> "Occasion", in_stock |-> TRUE]) >>

SampleLooks ==
    << LookbookEntry([season |-> "fall-24", title |-> "Moonrise Over Silk",
                      slug |-> "moonrise-over-silk", order |-> 1]) >>

SamplePosts ==
    << JournalPost([title |-> "On Weightless Femininity",
                    slug |-> "on-weightless-femininity"]) >>

\* The three passes of seed_minimal, in order
SeedPhases ==
    << [coll |-> "product", samples |-> SampleProducts, count |-> "products"],
       [coll |-> "lookbookentry", samples |-> SampleLooks, count |-> "lookbook"],
       [coll |-> "journalpost", samples |-> SamplePosts, count |-> "journal"] >>

NoneInserted == [products |-> 0, lookbook |-> 0, journal |-> 0]

\* The slugs of a collection as a pass reads them: {d.get("slug") for d in ...}
ExistingSlugs(coll) ==
    {Get(d, "slug", "None") : d \in Range(get_documents(coll, NoFilter))}

\* As SeedMissing, never finding the sample
SeedMissing_always(sample, existing) == TRUE

\* if sample.slug not in existing
SeedMissing(sample, existing) == sample["slug"] \notin existing

\* POST /api/seed: a pass reads the slugs its collection holds
seed_minimal(p) ==
    /\ pc[p] = "seed_minimal"
    /\ LET phase == Get(loc[p], "phase", 1)
       IN  Goto(p, "seed_insert",
                [phase |-> phase,
                 existing |-> ExistingSlugs(SeedPhases[phase]["coll"]),
                 i |-> 1,
                 inserted |-> Get(loc[p], "inserted", NoneInserted)])
    /\ NoWrite
    /\ Frame
    /\ UNCHANGED <<earnLog, seedsDone>>

\* POST /api/seed: one turn of a pass's loop over its samples
seed_insert(p) ==
    /\ pc[p] = "seed_insert"
    /\ LET l == loc[p]
           ph == SeedPhases[l["phase"]]
           sample == ph["samples"][l["i"]]
           missing == SeedMissing(sample, l["existing"])
           inserted == IF missing
                       THEN [l["inserted"] EXCEPT ![ph["count"]] = @ + 1]
                       ELSE l["inserted"]
       IN  /\ IF missing THEN create_document(ph["coll"], sample) ELSE NoWrite
           /\ IF l["i"] < Len(ph["samples"])
              THEN /\ Goto(p, "seed_insert",
                           [l EXCEPT !["i"] = @ + 1, !["inserted"] = inserted])
                   /\ UNCHANGED seedsDone
              ELSE IF l["phase"] < Len(SeedPhases)
              THEN /\ Goto(p, "seed_minimal",
                           [phase |-> l["phase"] + 1, inserted |-> inserted])
                   /\ UNCHANGED seedsDone
              ELSE /\ Complete(p, [status |-> 200,
                                   body |-> [ok |-> TRUE, inserted |-> inserted]])
                   /\ seedsDone' = seedsDone + 1
    /\ Frame
    /\ UNCHANGED earnLog

\* ------------------------------------------------------------------ specifications

NoPrev == [slot |-> 0, req |-> NoReq, resp |-> NoResp, db0 |-> EmptyStore,
           after |-> FALSE, fresh |-> FALSE]

NoHist == [db0 |-> EmptyStore, after |-> FALSE, fresh |-> FALSE]

InitWith(store, isSerial) ==
    /\ db = store
    /\ nextId = 1 + Len(store["product"]) + Len(store["lookbookentry"])
                  + Len(store["loyaltyuser"]) + Len(store["journalpost"])
    /\ pc = [p \in Procs |-> "idle"]
    /\ req = [p \in Procs |-> NoReq]
    /\ loc = [p \in Procs |-> NoLoc]
    /\ resp = [p \in Procs |-> NoResp]
    /\ nreq = 0
    /\ serial = isSerial
    /\ prev = NoPrev
    /\ hist = [p \in Procs |-> NoHist]
    /\ earnLog = [e \in Emails |-> <<>>]
    /\ seedsDone = 0

\* A fresh store, requests overlapping freely
Init == InitWith(EmptyStore, FALSE)

\* A fresh store, no two requests overlapping
SeqInit == InitWith(EmptyStore, TRUE)

Handle(p) ==
    \/ get_product(p)
    \/ create_product(p)
    \/ get_lookbook(p)
    \/ get_profile(p)
    \/ get_profile_insert(p)
    \/ earn_photons(p)
    \/ earn_insert(p)
    \/ earn_update(p)
    \/ seed_minimal(p)
    \/ seed_insert(p)

Next ==
    \/ \E p \in Procs, r \in Requests : Accept(p, r)
    \/ \E p \in Procs, r \in Requests : Reject(p, r)
    \/ \E p \in Procs : Handle(p)

Spec == Init /\ [][Next]_vars

SeqSpec == SeqInit /\ [][Next]_vars

\* ---- the lookbook collection drawn from bounded sets

LookTitles == <<"Look A", "Look B", "Look C", "Look D", "Look E">>

\* What a stored lookbook document can hold for its season and order; a
\* document written by another client of the store may lack the order
LookShapes ==
    { [season |-> s, order |-> o] : s \in Seasons, o \in {-1, 0, 1} }
    \cup { [season |-> s] : s \in Seasons }

LookDoc(i, shape) ==
    With(With(With(shape, "_id", i), "title", LookTitles[i]), "slug", "look")

LookStores ==
    UNION { { [i \in 1..n |-> LookDoc(i, f[i])] : f \in [1..n -> LookShapes] }
            : n \in 0..MaxLook }

LbInit ==
    \E looks \in LookStores :
        InitWith([EmptyStore EXCEPT !["lookbookentry"] = looks], FALSE)

LbNext ==
    \/ \E p \in Procs, r \in LookbookRequests : Accept(p, r)
    \/ \E p \in Procs : get_lookbook(p)

LbSpec == LbInit /\ [][LbNext]_vars

\* ------------------------------------------------------------------ claims

\* The stored profiles of an email
ProfilesOf(store, e) == SelectDocs(store["loyaltyuser"], [email |-> e])

\* C1 (SeqSpec): between requests, an email whose completed earn requests all
\* had non-negative amounts a1..ak (k >= 1) has exactly one stored profile,
\* and its photons are a1 + ... + ak.
C1_EarnSequenceSums ==
    \A e \in Emails :
        (/\ AllIdle
         /\ earnLog[e] # <<>>
         /\ \A i \in DOMAIN earnLog[e] : earnLog[e][i] >= 0)
        => /\ Len(ProfilesOf(db, e)) = 1
           /\ ProfilesOf(db, e)[1]["photons"] = SumSeq(earnLog[e])

\* Two earn requests of 5 for an email that had no profile have completed,
\* and the one profile holds 10.
C1_Witness ==
    /\ AllIdle
    /\ earnLog["a@x.com"] = <<5, 5>>
    /\ nreq = 2
    /\ Len(ProfilesOf(db, "a@x.com")) = 1
    /\ ProfilesOf(db, "a@x.com")[1]["photons"] = 10

InsertedTotal(r) ==
    r["body"]["inserted"]["products"] + r["body"]["inserted"]["lookbook"]
    + r["body"]["inserted"]["journal"]

\* C2 (SeqSpec): a seed request accepted on the fresh store reports a nonzero
\* number of insertions; a seed request accepted after an earlier one has
\* completed reports products = 0, lookbook = 0, journal = 0 and leaves the
\* store as it found it.
C2_SeedIdempotent ==
    (AllIdle /\ prev["req"]["op"] = "seed_minimal")
    => /\ prev["resp"]["status"] = 200
       /\ prev["fresh"] => InsertedTotal(prev["resp"]) > 0
       /\ prev["after"] => /\ prev["resp"]["body"]["inserted"] = NoneInserted
                           /\ db = prev["db0"]

\* A second seed request has completed after a first one and a product
\* created in between.
C2_Witness ==
    /\ AllIdle
    /\ prev["req"]["op"] = "seed_minimal"
    /\ prev["after"]
    /\ seedsDone = 2
    /\ Len(db["product"]) = 3
    /\ prev["resp"]["body"]["inserted"] = NoneInserted

\* C3 (Spec): every stored LoyaltyUser document has photons >= 0.
C3_PhotonsNonNegative ==
    \A i \in DOMAIN db["loyaltyuser"] : db["loyaltyuser"][i]["photons"] >= 0

\* C4 (SeqSpec): between requests, a profile request that found no profile for
\* its email has stored exactly one, with photons 0 and tier Nova, and returned
\* it; one that found a profile has left the store as it was and returned that
\* profile (whenever the stored profile passes the response schema); and no
\* email ever has more than one profile.
C4_ProfileProvisionedOnce ==
    /\ \A e \in Emails : Len(ProfilesOf(db, e)) <= 1
    /\ (AllIdle /\ prev["req"]["op"] = "get_profile")
       => LET e == prev["req"]["email"]
              was == ProfilesOf(prev["db0"], e)
              now == ProfilesOf(db, e)
          IN  IF was = <<>>
              THEN /\ Len(now) = 1
                   /\ Pop(now[1], "_id") = [email |-> e, photons |-> 0, tier |-> "Nova"]
                   /\ prev["resp"] = [status |-> 200, body |-> Pop(now[1], "_id")]
                   /\ Len(db["loyaltyuser"]) = Len(prev["db0"]["loyaltyuser"]) + 1
              ELSE /\ db = prev["db0"]
                   /\ was[1]["photons"] >= 0
                      => prev["resp"] = [status |-> 200, body |-> Pop(was[1], "_id")]

\* A second profile request for an email has completed right after the first:
\* it found the profile with photons 0, returned it and changed nothing.
C4_Witness ==
    /\ AllIdle
    /\ nreq = 2
    /\ prev["req"]["op"] = "get_profile"
    /\ Len(ProfilesOf(prev["db0"], prev["req"]["email"])) = 1
    /\ Len(db["loyaltyuser"]) = 1
    /\ prev["resp"] = [status |-> 200,
                       body |-> [email |-> prev["req"]["email"], photons |-> 0,
                                 tier |-> "Nova"]]

\* C5 (SeqSpec): a GET /api/products/{slug} that directly follows a successful
\* POST /api/products of a payload with that slug returns the fields of that
\* payload, without an internal identifier.
C5_CreateThenGet ==
    [][\A p \in Procs :
         (/\ serial
          /\ pc[p] = "get_product"
          /\ pc'[p] = "idle"
          /\ prev["req"]["op"] = "create_product"
          /\ prev["resp"]["status"] = 200
          /\ prev["req"]["body"]["slug"] = req[p]["slug"])
         => resp'[p] = [status |-> 200, body |-> prev["req"]["body"]]]_vars

\* C6 (Spec): a first-touch request that has passed its existence check inserts
\* its profile whatever the store holds by then, and succeeds: the store gains
\* one profile for the email.
C6_FirstTouchInsertsUnchecked ==
    [][\A p \in Procs :
         (pc[p] \in {"get_profile_insert", "earn_insert"} /\ pc'[p] = "idle")
         => /\ resp'[p]["status"] = 200
            /\ Len(ProfilesOf(db', loc[p]["profile"]["email"]))
               = Len(ProfilesOf(db, loc[p]["profile"]["email"])) + 1]_vars

FirstTouchEmail(r) ==
    IF r["op"] = "get_profile" THEN r["email"] ELSE r["body"]["email"]

\* Two overlapping first-touch requests for one email have both succeeded and
\* the store holds two profiles for it.
C6_Witness ==
    /\ AllIdle
    /\ nreq = 2
    /\ \A p \in Procs : /\ req[p]["op"] \in {"get_profile", "earn_photons"}
                        /\ resp[p]["status"] = 200
                        /\ FirstTouchEmail(req[p]) = "a@x.com"
    /\ Len(ProfilesOf(db, "a@x.com")) = 2

\* The stored document with an internal identifier
DocById(store, coll, id) == SelectDocs(store[coll], [_id |-> id])[1]

\* C7 (Spec): an earn request that found a profile writes the balance it read
\* plus its amount, whatever the stored balance has become since it read.
C7_UpdateOverwrites ==
    [][\A p \in Procs :
         (pc[p] = "earn_update" /\ pc'[p] = "idle")
         => /\ resp'[p]["status"] = 200
            /\ DocById(db', "loyaltyuser", loc[p]["doc"]["_id"])["photons"]
               = loc[p]["doc"]["photons"] + req[p]["body"]["amount"]]_vars

\* Two overlapping earn requests of 5 for one existing profile have both
\* succeeded having read the same balance, and the stored balance is that
\* balance plus 5, not plus 10.
C7_Witness ==
    /\ AllIdle
    /\ \A p \in Procs : /\ req[p]["op"] = "earn_photons"
                        /\ req[p]["body"] = [email |-> "a@x.com", kind |-> "view_3d",
                                             amount |-> 5]
                        /\ resp[p] = [status |-> 200,
                                      body |-> [ok |-> TRUE, photons |-> 5]]
    /\ Len(ProfilesOf(db, "a@x.com")) = 1
    /\ ProfilesOf(db, "a@x.com")[1]["photons"] = 5

\* C8 (Spec): whenever seed inserts a sample, no document of that collection
\* has the sample's slug at the moment of the insert.
C8_SeedInsertsOnlyAbsent ==
    [][\A p \in Procs :
         (pc[p] = "seed_insert" /\ loc'[p] # loc[p] /\ db' # db)
         => LET ph == SeedPhases[loc[p]["phase"]]
            IN  \A i \in DOMAIN db[ph["coll"]] :
                    db[ph["coll"]][i]["slug"] # ph["samples"][loc[p]["i"]]["slug"]]_vars

\* C9 (SeqSpec): a write request that fails is answered with a client error
\* (4xx) and leaves every collection as it was.
C9_ValidationFailureIsClientError ==
    (/\ AllIdle
     /\ prev["req"]["op"] \in {"create_product", "earn_photons"}
     /\ prev["resp"]["status"] # 200)
    => /\ prev["resp"]["status"] \in 400..499
       /\ db = prev["db0"]

\* How often x occurs in a sequence
Occurrences(x, s) == Cardinality({i \in DOMAIN s : s[i] = x})

\* C10 (LbSpec): the answer of a lookbook request holds exactly the stored
\* entries of the requested season (each as often as stored, without _id, a
\* missing order read as 0), in non-decreasing order of order, and the store
\* is as it was.
C10_LookbookSorted ==
    prev["req"]["op"] = "get_lookbook"
    => LET body == prev["resp"]["body"]
           store == prev["db0"]["lookbookentry"]
           stored == [i \in DOMAIN store |->
                        [season |-> store[i]["season"], title |-> store[i]["title"],
                         slug |-> store[i]["slug"],
                         order |-> IF "order" \in DOMAIN store[i]
                                   THEN store[i]["order"] ELSE 0]]
       IN  /\ prev["resp"]["status"] = 200
           /\ \A i \in DOMAIN body : body[i]["season"] = prev["req"]["season"]
           /\ \A i \in DOMAIN stored :
                  stored[i]["season"] = prev["req"]["season"]
                  => Occurrences(stored[i], body) = Occurrences(stored[i], stored)
           /\ \A i \in DOMAIN body : Occurrences(body[i], stored) >= 1
           /\ \A i, j \in DOMAIN body :
                  i < j => body[i]["order"] <= body[j]["order"]
           /\ db = prev["db0"]

\* A lookbook request has answered three entries of its season that were
\* stored out of order, one of them without an order.
C10_Witness ==
    /\ prev["req"]["op"] = "get_lookbook"
    /\ Len(prev["resp"]["body"]) = 3
    /\ LET store == prev["db0"]["lookbookentry"]
       IN  /\ Len(store) = 3
           /\ "order" \notin DOMAIN store[2]
           /\ Get(store[1], "order", 0) = 1
           /\ Get(store[3], "order", 0) = -1
           /\ \A i \in DOMAIN store : store[i]["season"] = prev["req"]["season"]

====
